---- MODULE Spec2Model ----
(***************************************************************************)
(* Base-URL resolution of the chor-police frontend.                        *)
(*                                                                         *)
(* Two places choose a backend origin from a mode input:                   *)
(*   - the Vite configuration (build time): server.proxy and the define    *)
(*     entry __API_BASE_URL__, from process.env.NODE_ENV;                  *)
(*   - the application bootstrap (run time): axios.defaults.baseURL, from  *)
(*     import.meta.env.MODE, assigned before the React tree is rendered.   *)
(*                                                                         *)
(* JavaScript strings are sequences of one-character strings, so that      *)
(* JSON.stringify, the define substitution and URL parsing are computed    *)
(* rather than assumed.  A JavaScript value is a record                    *)
(* [type, chars]; undefined is [type |-> "undefined", chars |-> <<>>].     *)
(***************************************************************************)
EXTENDS Integers, Sequences, FiniteSets, TLC

VARIABLES
    NODE_ENV,    \* process.env.NODE_ENV seen by the Vite configuration
    MODE,        \* import.meta.env.MODE seen by the bootstrap
    configFile,  \* which of the repository's Vite configurations is in use
    command,     \* "serve" (dev server, server.* applies) or "build"
    define,      \* replacement text of __API_BASE_URL__ (a JS value)
    proxy,       \* the loaded server.proxy rules
    pc,          \* position of the program
    baseURL,     \* axios.defaults.baseURL (a JS value)
    writes,      \* number of assignments made to axios.defaults.baseURL
    tree,        \* the components rendered into the root, outermost first
    requests,    \* HTTP requests issued by rendered components
    forwarded    \* requests forwarded by the dev server's proxy

vars == <<NODE_ENV, MODE, configFile, command, define, proxy, pc, baseURL,
          writes, tree, requests, forwarded>>

----------------------------------------------------------------------------
(* Bounds *)

MaxRequests == 2

----------------------------------------------------------------------------
(* JavaScript values *)

JSUndefined == [type |-> "undefined", chars |-> <<>>]

JSString(s) == [type |-> "string", chars |-> s]

EmptyString == JSString(<<>>)

Unset == "<unset>"

\* Values of the mode inputs: Vite's two defaults, custom modes, a
\* differently-cased spelling, and a missing value.
Modes == {"development", "production", "staging", "test", "Production", Unset}

Commands == {"serve", "build"}

FrontendConfig == "frontend/vite.config.js"

UnnamedConfig == "unnamed/part_000"

ConfigFiles == {FrontendConfig, UnnamedConfig}

----------------------------------------------------------------------------
(* String literals of the source *)

ApiPrefix == <<"/", "a", "p", "i">>

LocalBackend ==
    <<"h", "t", "t", "p", ":", "/", "/", "l", "o", "c", "a", "l", "h", "o",
      "s", "t", ":", "8", "0", "0", "0">>

FrontendProxyTarget ==
    <<"h", "t", "t", "p", "s", ":", "/", "/", "c", "h", "o", "r", "-", "p",
      "o", "l", "i", "c", "e", "-", "b", "a", "c", "k", "e", "n", "d", ".",
      "o", "n", "r", "e", "n", "d", "e", "r", ".", "c", "o", "m">>

DefineProductionOrigin ==
    <<"h", "t", "t", "p", "s", ":", "/", "/", "c", "h", "o", "r", "-", "p",
      "o", "l", "i", "c", "e", "-", "b", "a", "c", "k", "e", "n", "d", ".",
      "o", "n", "r", "e", "n", "d", "e", "r", ".", "c", "o", "m">>

BootstrapOriginNoScheme ==
    <<"c", "h", "o", "r", "-", "p", "o", "l", "i", "c", "e", "-", "b", "a",
      "c", "k", "e", "n", "d", ".", "o", "n", "r", "e", "n", "d", "e", "r",
      ".", "c", "o", "m">>

BootstrapProductionOrigin ==
    <<"h", "t", "t", "p", "s", ":", "/", "/", "c", "h", "o", "r", "-", "p",
      "o", "l", "i", "c", "e", "-", "b", "a", "c", "k", "e", "n", "d", ".",
      "o", "n", "r", "e", "n", "d", "e", "r", ".", "c", "o", "m">>

----------------------------------------------------------------------------
(* JSON.stringify of a string, and the evaluation of the string literal    *)
(* that the define substitution puts in place of __API_BASE_URL__          *)

Quote == "\""

Backslash == "\\"

RECURSIVE Escape(_)
Escape(s) ==
    IF s = <<>> THEN <<>>
    ELSE IF Head(s) \in {Quote, Backslash}
         THEN <<Backslash, Head(s)>> \o Escape(Tail(s))
         ELSE <<Head(s)>> \o Escape(Tail(s))

JSONStringify(s) == <<Quote>> \o Escape(s) \o <<Quote>>

RECURSIVE Unescape(_)
Unescape(s) ==
    IF s = <<>> THEN <<>>
    ELSE IF Head(s) = Backslash /\ Len(s) >= 2
         THEN <<s[2]>> \o Unescape(SubSeq(s, 3, Len(s)))
         ELSE <<Head(s)>> \o Unescape(Tail(s))

EvalDefine(d) ==
    IF d.type = "string" /\ Len(d.chars) >= 2
       /\ d.chars[1] = Quote /\ d.chars[Len(d.chars)] = Quote
    THEN JSString(Unescape(SubSeq(d.chars, 2, Len(d.chars) - 1)))
    ELSE JSUndefined

----------------------------------------------------------------------------
(* The Vite configurations *)

ServerProxy(cfg) ==
    IF cfg = FrontendConfig
    THEN {[prefix |-> ApiPrefix, target |-> FrontendProxyTarget]}
    ELSE {[prefix |-> ApiPrefix, target |-> LocalBackend]}

DefineTestsDevelopment(cfg, nodeEnv) ==
    IF cfg = UnnamedConfig
    THEN JSString(JSONStringify(IF nodeEnv = "development"
                                THEN <<>>
                                ELSE DefineProductionOrigin))
    ELSE JSUndefined

DefineApiBaseUrl(cfg, nodeEnv) ==
    IF cfg = UnnamedConfig
    THEN JSString(JSONStringify(IF nodeEnv = "production"
                                THEN DefineProductionOrigin
                                ELSE <<>>))
    ELSE JSUndefined

----------------------------------------------------------------------------
(* The bootstrap's resolver *)

ResolveAlwaysProduction(mode) == JSString(BootstrapProductionOrigin)

ResolveNeverProduction(mode) == EmptyString

ResolveTestsDevelopment(mode) ==
    IF mode = "development"
    THEN EmptyString
    ELSE JSString(BootstrapProductionOrigin)

ResolveByLookup(mode) ==
    IF mode = "production" THEN JSString(BootstrapProductionOrigin)
    ELSE IF mode = "development" THEN EmptyString
    ELSE JSUndefined

ResolveBaseURL(mode) ==
    IF mode = "production"
    THEN JSString(BootstrapProductionOrigin)
    ELSE EmptyString

----------------------------------------------------------------------------
(* Program order: the configuration is evaluated at build time; the        *)
(* bootstrap module then runs its imports, the assignment and the render   *)
(* call in source order, and the application keeps running afterwards.     *)

SuccessorRenderFirst(p) ==
    CASE p = "config" -> "import"
      [] p = "import" -> "render"
      [] p = "render" -> "assign"
      [] p = "assign" -> "running"
      [] OTHER -> p

Successor(p) ==
    CASE p = "config" -> "import"
      [] p = "import" -> "assign"
      [] p = "assign" -> "render"
      [] p = "render" -> "running"
      [] OTHER -> p

FirstStatement == "config"

AppTree == <<"PlayerProvider", "RoomProvider", "App">>

\* Paths requested by the components (relative URLs).
Paths ==
    { <<"/", "a", "p", "i", "/", "r", "o", "o", "m">>,
      <<"/", "s", "o", "c", "k", "e", "t", ".", "i", "o">> }

StartsWith(s, prefix) ==
    Len(s) >= Len(prefix) /\ SubSeq(s, 1, Len(prefix)) = prefix

----------------------------------------------------------------------------
Init ==
    /\ NODE_ENV \in Modes
    /\ MODE \in Modes
    /\ configFile \in ConfigFiles
    /\ command \in Commands
    /\ define = JSUndefined
    /\ proxy = {}
    /\ pc = FirstStatement
    /\ baseURL = JSUndefined
    /\ writes = 0
    /\ tree = <<>>
    /\ requests = <<>>
    /\ forwarded = {}

LoadConfig ==
    /\ pc = "config"
    /\ define' = DefineApiBaseUrl(configFile, NODE_ENV)
    /\ proxy' = ServerProxy(configFile)
    /\ pc' = Successor(pc)
    /\ UNCHANGED <<NODE_ENV, MODE, configFile, command, baseURL, writes,
                   tree, requests, forwarded>>

Import ==
    /\ pc = "import"
    /\ pc' = Successor(pc)
    /\ UNCHANGED <<NODE_ENV, MODE, configFile, command, define, proxy,
                   baseURL, writes, tree, requests, forwarded>>

AssignBaseURL ==
    /\ pc = "assign"
    /\ baseURL' = ResolveBaseURL(MODE)
    /\ writes' = writes + 1
    /\ pc' = Successor(pc)
    /\ UNCHANGED <<NODE_ENV, MODE, configFile, command, define, proxy,
                   tree, requests, forwarded>>

RenderReassigns ==
    /\ pc = "render"
    /\ tree' = AppTree
    /\ baseURL' = JSString(BootstrapProductionOrigin)
    /\ writes' = writes + 1
    /\ pc' = Successor(pc)
    /\ UNCHANGED <<NODE_ENV, MODE, configFile, command, define, proxy,
                   requests, forwarded>>

Render ==
    /\ pc = "render"
    /\ tree' = AppTree
    /\ pc' = Successor(pc)
    /\ UNCHANGED <<NODE_ENV, MODE, configFile, command, define, proxy,
                   baseURL, writes, requests, forwarded>>

SendRequest(c, path) ==
    /\ pc = "running"
    /\ c \in 1..Len(tree)
    /\ Len(requests) < MaxRequests
    /\ requests' = Append(requests,
                          [by |-> tree[c], path |-> path, base |-> baseURL])
    /\ UNCHANGED <<NODE_ENV, MODE, configFile, command, define, proxy, pc,
                   baseURL, writes, tree, forwarded>>

DevProxyForward(i) ==
    /\ command = "serve"
    /\ i \in 1..Len(requests)
    /\ requests[i].base = EmptyString
    /\ \A f \in forwarded : f.request # i
    /\ \E rule \in proxy :
          /\ StartsWith(requests[i].path, rule.prefix)
          /\ forwarded' = forwarded \cup
                {[request |-> i, target |-> rule.target]}
    /\ UNCHANGED <<NODE_ENV, MODE, configFile, command, define, proxy, pc,
                   baseURL, writes, tree, requests>>

Next ==
    \/ LoadConfig
    \/ Import
    \/ AssignBaseURL
    \/ Render
    \/ \E c \in 1..3, path \in Paths : SendRequest(c, path)
    \/ \E i \in 1..MaxRequests : DevProxyForward(i)

Spec == Init /\ [][Next]_vars

Bootstrap == LoadConfig \/ Import \/ AssignBaseURL \/ Render

FairSpec == Spec /\ WF_vars(Bootstrap)

ApiBaseUrlValue == EvalDefine(define)

----------------------------------------------------------------------------
(* Vocabulary of the properties *)

Assigned == writes > 0

Defined == define.type = "string"

ClaimedProductionOrigin ==
    <<"h", "t", "t", "p", "s", ":", "/", "/", "c", "h", "o", "r", "-", "p",
      "o", "l", "i", "c", "e", "-", "b", "a", "c", "k", "e", "n", "d", ".",
      "o", "n", "r", "e", "n", "d", "e", "r", ".", "c", "o", "m">>

Letters ==
    {"a", "b", "c", "d", "e", "f", "g", "h", "i", "j", "k", "l", "m", "n",
     "o", "p", "q", "r", "s", "t", "u", "v", "w", "x", "y", "z"}

Digits == {"0", "1", "2", "3", "4", "5", "6", "7", "8", "9"}

HostChars == Letters \cup Digits \cup {"-", "."}

SchemeSeparator == <<":", "/", "/">>

\* Positions at which "://" starts.
SchemeEnds(s) ==
    {i \in 1..(Len(s) - 2) : SubSeq(s, i, i + 2) = SchemeSeparator}

FirstOf(S) == CHOOSE i \in S : \A j \in S : i <= j

Scheme(s) == SubSeq(s, 1, FirstOf(SchemeEnds(s)) - 1)

\* What follows "scheme://".
Authority(s) == SubSeq(s, FirstOf(SchemeEnds(s)) + 3, Len(s))

Colons(a) == {i \in 1..Len(a) : a[i] = ":"}

Host(a) == IF Colons(a) = {} THEN a ELSE SubSeq(a, 1, FirstOf(Colons(a)) - 1)

Port(a) ==
    IF Colons(a) = {} THEN <<>> ELSE SubSeq(a, FirstOf(Colons(a)) + 1, Len(a))

\* scheme "://" host [":" port], with nothing after it.
IsAbsoluteOrigin(s) ==
    /\ SchemeEnds(s) # {}
    /\ Scheme(s) # <<>>
    /\ \A k \in 1..Len(Scheme(s)) : Scheme(s)[k] \in Letters
    /\ LET a == Authority(s)
       IN /\ Host(a) # <<>>
          /\ \A k \in 1..Len(Host(a)) : Host(a)[k] \in HostChars
          /\ Colons(a) # {} => Port(a) # <<>>
          /\ \A k \in 1..Len(Port(a)) : Port(a)[k] \in Digits

LocalHosts ==
    { <<"l", "o", "c", "a", "l", "h", "o", "s", "t">>,
      <<"1", "2", "7", ".", "0", ".", "0", ".", "1">> }

IsLocalAddress(s) ==
    /\ IsAbsoluteOrigin(s)
    /\ Host(Authority(s)) \in LocalHosts

WellFormed(v) ==
    /\ v.type = "string"
    /\ v.chars # <<>> => IsAbsoluteOrigin(v.chars)

----------------------------------------------------------------------------
(* Properties *)

\* C1: in mode 'development' the base URL installed on the shared HTTP
\* client is the empty string, and so is the value of the build-time
\* constant __API_BASE_URL__ where the configuration defines it.
DevelopmentIsEmpty ==
    /\ (Assigned /\ MODE = "development") => baseURL = EmptyString
    /\ (Defined /\ NODE_ENV = "development") => ApiBaseUrlValue = EmptyString

DevelopmentWitness ==
    /\ pc = "running"
    /\ Assigned /\ MODE = "development"
    /\ Defined /\ NODE_ENV = "development"
    /\ baseURL.chars = <<>>

\* C2: in mode 'production' the base URL installed on the shared HTTP
\* client is exactly 'https://chor-police-backend.onrender.com', and so is
\* the value of __API_BASE_URL__ where the configuration defines it.
ProductionIsOrigin ==
    /\ (Assigned /\ MODE = "production")
          => baseURL = JSString(ClaimedProductionOrigin)
    /\ (Defined /\ NODE_ENV = "production")
          => ApiBaseUrlValue = JSString(ClaimedProductionOrigin)

ProductionWitness ==
    /\ pc = "running"
    /\ Assigned /\ MODE = "production"
    /\ Defined /\ NODE_ENV = "production"
    /\ Len(baseURL.chars) = 40

\* C3 as stated: for every mode that is not 'development' the resolved base
\* URL is the production origin.
OtherwiseIsProduction ==
    /\ (Assigned /\ MODE # "development")
          => baseURL = JSString(ClaimedProductionOrigin)
    /\ (Defined /\ NODE_ENV # "development")
          => ApiBaseUrlValue = JSString(ClaimedProductionOrigin)

\* C3 as amended: the resolved base URL is the production origin exactly
\* when the mode is 'production'; for every other mode ('development',
\* 'staging', 'test', an unset mode) it is the empty string.
ProductionIffProductionMode ==
    /\ Assigned =>
          baseURL = IF MODE = "production"
                    THEN JSString(ClaimedProductionOrigin)
                    ELSE EmptyString
    /\ Defined =>
          ApiBaseUrlValue = IF NODE_ENV = "production"
                            THEN JSString(ClaimedProductionOrigin)
                            ELSE EmptyString

OtherModeWitness ==
    /\ Assigned /\ MODE \notin {"development", "production"}
    /\ Defined /\ NODE_ENV \notin {"development", "production"}
    /\ baseURL = EmptyString
    /\ ApiBaseUrlValue = EmptyString

\* C4: the base URL is assigned exactly once: once the bootstrap has passed
\* its assignment there has been one write, and no later step writes
\* axios.defaults.baseURL or changes its value.
BaseUrlSetOnce ==
    /\ [](writes <= 1)
    /\ [](pc \in {"render", "running"} => writes = 1)
    /\ [][Assigned => (baseURL' = baseURL /\ writes' = writes)]_vars

SetOnceWitness ==
    /\ pc = "running"
    /\ writes = 1
    /\ tree = AppTree
    /\ Len(requests) = MaxRequests
    /\ forwarded # {}

\* C5: every request that the dev server's proxy forwards for the '/api'
\* prefix goes to a local backend address, never to the remote production
\* origin.
ProxyTargetsLocal ==
    \A f \in forwarded :
        StartsWith(requests[f.request].path, ApiPrefix)
            => IsLocalAddress(f.target)

\* C6: resolution is total: for every mode value, 'development',
\* 'production', any other or a missing one, the bootstrap reaches the state
\* in which the base URL is set, and the value set is a string.
ResolutionTotal ==
    /\ [](Assigned => baseURL.type = "string")
    /\ <>(Assigned /\ baseURL.type = "string")

TotalWitness ==
    /\ Assigned
    /\ MODE = Unset
    /\ baseURL.type = "string"

\* C7: once set, the API base URL is the empty string or an absolute origin
\* URL (scheme, "://", host, optional port), for every mode input; likewise
\* the value of __API_BASE_URL__ where the configuration defines it.
NonEmptyIsAbsoluteOrigin ==
    /\ Assigned => WellFormed(baseURL)
    /\ Defined => WellFormed(ApiBaseUrlValue)

AbsoluteOriginWitness ==
    /\ Assigned /\ baseURL.chars # <<>>
    /\ Defined /\ ApiBaseUrlValue.chars # <<>>
    /\ IsAbsoluteOrigin(baseURL.chars)

\* C8: the base URL is assigned before the application tree is rendered, so
\* every request issued by a rendered component was sent with the base URL
\* already set.
AssignedBeforeRender ==
    /\ tree # <<>> => baseURL.type = "string"
    /\ \A i \in 1..Len(requests) : requests[i].base.type = "string"

RequestAfterRenderWitness ==
    /\ tree = AppTree
    /\ Len(requests) > 0
    /\ requests[1].by = "App"
    /\ requests[1].base = baseURL

\* C9: where both exist, __API_BASE_URL__ and axios.defaults.baseURL have
\* the same value exactly when NODE_ENV and MODE agree about being
\* 'production'.
ResolversAgree ==
    (Assigned /\ Defined) =>
        ((ApiBaseUrlValue = baseURL)
            <=> ((NODE_ENV = "production") <=> (MODE = "production")))

ResolversAgreeWitness ==
    /\ Assigned /\ Defined
    /\ NODE_ENV = "production" /\ MODE = "production"
    /\ ApiBaseUrlValue = baseURL
    /\ baseURL.chars # <<>>

====
